---- MODULE Spec2Model ----
(***************************************************************************)
(* Session Viewer (frontend/src/main.ts): one page load of the avatar      *)
(* viewer, as a state machine of the browser event loop.  Every action is  *)
(* one task of the event loop: the module's top-level code, a settled      *)
(* promise continuing main(), an SDK event handler, a media callback, a    *)
(* timer callback or the beforeunload listener.                            *)
(***************************************************************************)
EXTENDS Integers, Sequences, FiniteSets, TLC

VARIABLES
    search,           \* window.location.search, as a sequence of key/value pairs
    sessionId,        \* const sessionId (line 10); NULL before line 10 ran
    pc,               \* where the module / main() stands
    page,             \* "open" | "unloaded"
    now,              \* the browser clock, in ms since the page load
    ticks,            \* how many times the clock was advanced
    fetchCount,       \* requests issued to the sessions endpoint
    response,         \* <<the response the fetch resolved with>> (line 28), or <<>>
    accessToken,      \* main's local accessToken (line 49)
    avatar,           \* let avatar (line 19): NULL or "client"
    clientToken,      \* the token the SDK client was constructed with
    constructCount,   \* how many times new StreamingAvatar(...) ran
    handlers,         \* event names registered with avatar.on
    srcObject,        \* videoElement.srcObject
    onloadedmetadata, \* videoElement.onloadedmetadata is set
    onerror,          \* videoElement.onerror is set
    metadataPending,  \* the attached stream has not yet fired loadedmetadata
    playPending,      \* play() promises not yet settled
    stopped,          \* streams whose tracks were stopped
    timeoutTimer,     \* the connection timer: unarmed, armed or fired, and its due time
    fullscreen,       \* the fullscreen request (line 59): "none" | "on" | "failed"
    closeTimers,      \* due times of the pending window.close timers, in order
    loadingDisplay,   \* loadingDiv.style.display
    videoDisplay,     \* videoElement.style.display
    errorDisplay,     \* errorDiv.style.display
    errorText         \* errorDiv.textContent

vars == <<search, sessionId, pc, page, now, ticks, fetchCount, response,
          accessToken, avatar, clientToken, constructCount, handlers, srcObject,
          onloadedmetadata, onerror, metadataPending, playPending, stopped,
          timeoutTimer, fullscreen, closeTimers, loadingDisplay, videoDisplay,
          errorDisplay, errorText>>

ui == <<loadingDisplay, videoDisplay, errorDisplay, errorText>>

lookupVars == <<search, sessionId, fetchCount, response, accessToken>>

sdkVars == <<avatar, clientToken, constructCount, handlers, timeoutTimer>>

mediaVars == <<srcObject, onloadedmetadata, onerror, metadataPending,
               playPending, stopped>>

clockVars == <<now, ticks>>

(***************************************************************************)
(* Bounds of the model.                                                    *)
(***************************************************************************)
MaxUrlParams == 2     \* query parameters of the page URL (SpecUrl)
MaxSessions == 2      \* records in active_sessions
MaxPlays == 1         \* play() promises pending at once
MaxCloseTimers == 1   \* window.close timers pending at once
MaxTicks == 3         \* advances of the clock

(***************************************************************************)
(* Program constants.                                                      *)
(***************************************************************************)
TIMEOUT_MS == 300000
CLOSE_DELAY_MS == 2000

NULL == "null"        \* null / undefined / an absent property

MSG_MISSING_ID == "Missing session_id in URL."
MSG_NOT_FOUND == "Session not found in active sessions"
MSG_NO_TOKEN == "Session found but access_token is missing"
MSG_FETCH_PREFIX == "Failed to fetch sessions: "
MSG_UNREACHABLE == "Cannot connect to server. Is the backend running on localhost:3001?"
MSG_INIT_PREFIX == "Failed to initialize avatar: "
MSG_UNKNOWN == "Unknown error"
MSG_PLAY_FAILED == "Failed to play avatar video. Check browser permissions for autoplay."
MSG_VIDEO_ERROR == "Video stream error."
MSG_NO_STREAM == "No video stream received from avatar."
MSG_DISCONNECTED == "Avatar disconnected. Closing..."
MSG_SDK_PREFIX == "Avatar error: "
MSG_TIMEOUT == "Connection timeout. The session may have expired or there may be a network issue. Please try restarting the session."

EVENTS == {"stream_ready", "stream_disconnected", "avatar_start_talking",
           "avatar_stop_talking", "error"}

(***************************************************************************)
(* Inputs: what the URL, the backend, the SDK and the browser can deliver. *)
(***************************************************************************)
SeqsUpTo(S, n) == UNION {[1..k -> S] : k \in 0..n}

ParamKeys == {"local_session_id", "session_id", "lang"}
UrlParamValues == {"", "a", "b"}
UrlParams == [key : ParamKeys, value : UrlParamValues]

\* the URLs of the page loads that are followed to their end: without an id,
\* with an empty one, and with the id "a" (as the README gives it)
PageUrls == {<<>>,
             <<[key |-> "lang", value |-> "a"]>>,
             <<[key |-> "session_id", value |-> ""]>>,
             <<[key |-> "local_session_id", value |-> "a"]>>}

Ids == {NULL, "a", "b"}
Tokens == {NULL, "", "t1", "t2"}
SessionRecords == [local_session_id : Ids, session_id : Ids, access_token : Tokens]

\* the body of an OK response: unparsable, or { active_sessions?: [...] }
\* (listed: the object has an active_sessions property)
NoBody == [json |-> FALSE, listed |-> FALSE, active_sessions |-> <<>>]
Bodies == {NoBody,
           [json |-> TRUE, listed |-> FALSE, active_sessions |-> <<>>]}
          \cup {[json |-> TRUE, listed |-> TRUE, active_sessions |-> l] :
                    l \in SeqsUpTo(SessionRecords, MaxSessions)}

NetworkErrors == {"Failed to fetch",
                  "NetworkError when attempting to fetch resource.",
                  "Load failed"}
StatusTexts == {"Not Found", ""}
JSON_ERROR == "Unexpected token < in JSON at position 0"

Streams == {"s1", "s2"}
\* the payload of a stream-ready event: undefined, without detail, or a stream
ReadyEvents == {[present |-> FALSE, detail |-> NULL],
                [present |-> TRUE, detail |-> NULL]}
               \cup {[present |-> TRUE, detail |-> s] : s \in Streams}
SdkErrors == {[message |-> NULL], [message |-> "boom"]}

TickSteps == {CLOSE_DELAY_MS, TIMEOUT_MS}

(***************************************************************************)
(* Pure helpers.                                                           *)
(***************************************************************************)
Falsy(v) == v = NULL \/ v = ""

\* a || b
Or(a, b) == IF Falsy(a) THEN b ELSE a

\* URLSearchParams.get: the first value of the key, null when the key is absent
RECURSIVE Get(_, _)
Get(q, k) ==
    IF q = <<>> THEN NULL
    ELSE IF Head(q).key = k THEN Head(q).value
    ELSE Get(Tail(q), k)

\* line 10, with the sessionId of a mutant that asks for session_id first
SessionIdOf_sessionFirst(q) == Or(Get(q, "session_id"), Get(q, "local_session_id"))

\* line 10: params.get("local_session_id") || params.get("session_id")
SessionIdOf(q) == Or(Get(q, "local_session_id"), Get(q, "session_id"))

\* String.prototype.includes
Includes(s, sub) ==
    \E i \in 1..(Len(s) - Len(sub) + 1) : SubSeq(s, i, i + Len(sub) - 1) = sub

\* line 39 of a mutant whose second test lost its comparison
Matches_truthy(s, id) ==
    \/ (s.local_session_id # NULL /\ s.local_session_id = id)
    \/ ~Falsy(s.session_id)

\* the predicate of the find (line 39), for a non-null id
Matches(s, id) ==
    \/ (s.local_session_id # NULL /\ s.local_session_id = id)
    \/ (s.session_id # NULL /\ s.session_id = id)

\* the find of a mutant that keeps the last matching record (findLast)
RECURSIVE Find_last(_, _)
Find_last(list, id) ==
    IF list = <<>> THEN <<>>
    ELSE IF Find_last(Tail(list), id) # <<>> THEN Find_last(Tail(list), id)
    ELSE IF Matches(Head(list), id) THEN <<Head(list)>>
    ELSE <<>>

\* Array.prototype.find with that predicate: <<the first matching record>>,
\* or <<>> for undefined
RECURSIVE Find(_, _)
Find(list, id) ==
    IF list = <<>> THEN <<>>
    ELSE IF Matches(Head(list), id) THEN <<Head(list)>>
    ELSE Find(Tail(list), id)

\* data.active_sessions?.find(...) (lines 38-40)
FindSession(data, id) ==
    IF data.listed THEN Find(data.active_sessions, id) ELSE <<>>

(***************************************************************************)
(* showVideo / showError (lines 150-162).                                  *)
(***************************************************************************)
\* showVideo of a mutant that leaves the error region as it is
showVideo_keepsError ==
    /\ loadingDisplay' = "none"
    /\ videoDisplay' = "block"
    /\ errorDisplay' = errorDisplay
    /\ errorText' = errorText

showVideo ==
    /\ loadingDisplay' = "none"
    /\ videoDisplay' = "block"
    /\ errorDisplay' = "none"
    /\ errorText' = errorText

\* showError of a mutant that leaves the video surface as it is
showError_keepsVideo(message) ==
    /\ loadingDisplay' = "none"
    /\ errorText' = message
    /\ errorDisplay' = "block"
    /\ videoDisplay' = videoDisplay

showError(message) ==
    /\ loadingDisplay' = "none"
    /\ errorText' = message
    /\ errorDisplay' = "block"
    /\ videoDisplay' = "none"

\* lines 139-146 of a mutant that tests the message for being there at all
CatchMain_anyMessage(message) ==
    /\ pc' = "failed"
    /\ IF message # NULL /\ message # ""
       THEN showError(MSG_UNREACHABLE)
       ELSE showError(MSG_INIT_PREFIX \o Or(message, MSG_UNKNOWN))

\* the catch of main (lines 139-146)
CatchMain(message) ==
    /\ pc' = "failed"
    /\ IF message # NULL /\ Includes(message, "fetch")
       THEN showError(MSG_UNREACHABLE)
       ELSE showError(MSG_INIT_PREFIX \o Or(message, MSG_UNKNOWN))

(***************************************************************************)
(* The initial state: the document is parsed, the script has not run.      *)
(***************************************************************************)
\* the document as index.html declares it: only the loading indicator shows
InitDom ==
    /\ loadingDisplay = "block"
    /\ videoDisplay = "none"
    /\ errorDisplay = "none"
    /\ errorText = ""

InitPage ==
    /\ InitDom
    /\ sessionId = NULL
    /\ pc = "init"
    /\ page = "open"
    /\ now = 0
    /\ ticks = 0
    /\ fetchCount = 0
    /\ response = <<>>
    /\ accessToken = NULL
    /\ avatar = NULL
    /\ clientToken = NULL
    /\ constructCount = 0
    /\ handlers = {}
    /\ srcObject = NULL
    /\ onloadedmetadata = FALSE
    /\ onerror = FALSE
    /\ metadataPending = FALSE
    /\ playPending = 0
    /\ stopped = {}
    /\ timeoutTimer = [state |-> "unarmed", due |-> 0]
    /\ fullscreen = "none"
    /\ closeTimers = <<>>

Init ==
    /\ search \in PageUrls
    /\ InitPage

\* the page loads of the URL claims: more parameters, two distinct ids
InitUrl ==
    /\ search \in SeqsUpTo(UrlParams, MaxUrlParams)
    /\ InitPage

(***************************************************************************)
(* Lines 9-21 and 165: the module's top-level code, up to main's first     *)
(* await.                                                                  *)
(***************************************************************************)
\* lines 21-28: main() is called and runs up to the await of the fetch
StartMain ==
    /\ fetchCount' = fetchCount + 1
    /\ pc' = "awaitFetch"

\* line 15 of a mutant that shows the error and goes on
ThrowMissingId_goesOn == StartMain

\* line 15: the throw ends the module's evaluation
ThrowMissingId ==
    /\ pc' = "aborted"
    /\ fetchCount' = fetchCount

TopLevel ==
    /\ pc = "init"
    /\ page = "open"
    /\ sessionId' = SessionIdOf(search)
    /\ IF Falsy(sessionId')
       THEN /\ showError(MSG_MISSING_ID)
            /\ ThrowMissingId
       ELSE /\ StartMain
            /\ UNCHANGED ui
    /\ UNCHANGED <<search, response, accessToken, page>>
    /\ UNCHANGED <<sdkVars, mediaVars, clockVars, closeTimers>>
    /\ UNCHANGED fullscreen

(***************************************************************************)
(* main() (lines 23-147), one action per await.                            *)
(***************************************************************************)
Responses == [ok : {TRUE}, statusText : {"OK"}, body : Bodies]
             \cup [ok : {FALSE}, statusText : StatusTexts, body : {NoBody}]

\* main returns or throws into its catch: its locals are gone (res and data
\* are not read after line 49)
MainEnds ==
    /\ response' = <<>>
    /\ accessToken' = NULL

\* line 28: the fetch rejects (no response at all)
FetchRejected(message) ==
    /\ pc = "awaitFetch"
    /\ page = "open"
    /\ CatchMain(message)
    /\ MainEnds
    /\ UNCHANGED <<search, sessionId, fetchCount, page>>
    /\ UNCHANGED <<sdkVars, mediaVars, clockVars, closeTimers>>
    /\ UNCHANGED fullscreen

\* lines 28-34: the fetch resolves with a response; res.json() is awaited
FetchResolved ==
    /\ pc = "awaitFetch"
    /\ page = "open"
    /\ \E res \in Responses :
           IF ~res.ok
           THEN /\ CatchMain(MSG_FETCH_PREFIX \o res.statusText)
                /\ MainEnds
           ELSE /\ pc' = "awaitJson"
                /\ response' = <<res>>
                /\ accessToken' = accessToken
                /\ UNCHANGED ui
    /\ UNCHANGED <<search, sessionId, fetchCount, page>>
    /\ UNCHANGED <<sdkVars, mediaVars, clockVars, closeTimers>>
    /\ UNCHANGED fullscreen

\* line 51 of a mutant that tests the token against null only
MissingToken_nullOnly(token) == token = NULL

\* a mutant without the test of lines 51-53
MissingToken_never(token) == FALSE

\* line 51: !accessToken
MissingToken(token) == Falsy(token)

\* lines 34-59: res.json() settles; the session is looked up, its token taken
\* and fullscreen requested
JsonSettled ==
    /\ pc = "awaitJson"
    /\ page = "open"
    /\ LET data == response[1].body
           session == FindSession(data, sessionId)
       IN  IF ~data.json
           THEN CatchMain(JSON_ERROR) /\ MainEnds
           ELSE IF session = <<>>
           THEN CatchMain(MSG_NOT_FOUND) /\ MainEnds
           ELSE IF MissingToken(session[1].access_token)
           THEN CatchMain(MSG_NO_TOKEN) /\ MainEnds
           ELSE /\ accessToken' = session[1].access_token
                /\ pc' = "awaitFullscreen"
                /\ response' = <<>>
                /\ UNCHANGED ui
    /\ UNCHANGED <<search, sessionId, fetchCount, page>>
    /\ UNCHANGED <<sdkVars, mediaVars, clockVars, closeTimers>>
    /\ UNCHANGED fullscreen

FullscreenOutcomes == {"unsupported", "granted", "denied"}

\* lines 58-62: requestFullscreen is missing (?. yields undefined), resolves,
\* or rejects into the inner catch, which only warns
RequestFullscreen(outcome) ==
    fullscreen' = CASE outcome = "granted" -> "on"
                    [] outcome = "denied" -> "failed"
                    [] OTHER -> fullscreen

\* lines 58-137 of a mutant without the inner try/catch of lines 58-62: the
\* rejection reaches main's catch
FullscreenSettled_uncaught(outcome) ==
    /\ pc = "awaitFullscreen"
    /\ page = "open"
    /\ outcome \in FullscreenOutcomes
    /\ RequestFullscreen(outcome)
    /\ IF outcome = "denied"
       THEN /\ CatchMain("Fullscreen request denied")
            /\ UNCHANGED sdkVars
       ELSE /\ avatar' = "client"
            /\ clientToken' = accessToken
            /\ constructCount' = constructCount + 1
            /\ handlers' = EVENTS
            /\ timeoutTimer' = [state |-> "armed", due |-> now + TIMEOUT_MS]
            /\ pc' = "done"
            /\ UNCHANGED ui
    /\ MainEnds
    /\ UNCHANGED <<search, sessionId, fetchCount, page>>
    /\ UNCHANGED <<mediaVars, clockVars, closeTimers>>

\* lines 58-137: the fullscreen request settles either way; the client is
\* constructed, the handlers are registered and the timeout is armed
FullscreenSettled(outcome) ==
    /\ pc = "awaitFullscreen"
    /\ page = "open"
    /\ outcome \in FullscreenOutcomes
    /\ RequestFullscreen(outcome)
    /\ avatar' = "client"
    /\ clientToken' = accessToken
    /\ constructCount' = constructCount + 1
    /\ handlers' = EVENTS
    /\ timeoutTimer' = [state |-> "armed", due |-> now + TIMEOUT_MS]
    /\ pc' = "done"
    /\ MainEnds
    /\ UNCHANGED <<search, sessionId, fetchCount, page>>
    /\ UNCHANGED <<ui, mediaVars, clockVars, closeTimers>>

(***************************************************************************)
(* The SDK's events (lines 70-127).                                        *)
(***************************************************************************)
Delivered(name) ==
    /\ page = "open"
    /\ name \in handlers

\* lines 75-97 of a mutant that shows the video as soon as it is attached
AttachStream_showsVideo(stream) ==
    /\ srcObject' = stream
    /\ onloadedmetadata' = TRUE
    /\ onerror' = TRUE
    /\ metadataPending' = TRUE
    /\ showVideo

\* lines 75-97: the stream is attached and the media callbacks are set
AttachStream(stream) ==
    /\ srcObject' = stream
    /\ onloadedmetadata' = TRUE
    /\ onerror' = TRUE
    /\ metadataPending' = TRUE
    /\ UNCHANGED ui

\* lines 70-102 of a mutant whose else branch also detaches the stream
StreamReady_clears(event) ==
    /\ Delivered("stream_ready")
    /\ IF event.present /\ ~Falsy(event.detail)
       THEN AttachStream(event.detail)
       ELSE /\ showError(MSG_NO_STREAM)
            /\ srcObject' = NULL
            /\ metadataPending' = FALSE
            /\ UNCHANGED <<onloadedmetadata, onerror>>
    /\ UNCHANGED <<playPending, stopped, pc, page, closeTimers>>
    /\ UNCHANGED <<lookupVars, sdkVars, clockVars>>
    /\ UNCHANGED fullscreen

\* lines 70-102
StreamReady(event) ==
    /\ Delivered("stream_ready")
    /\ IF event.present /\ ~Falsy(event.detail)
       THEN AttachStream(event.detail)
       ELSE /\ showError(MSG_NO_STREAM)
            /\ UNCHANGED <<srcObject, onloadedmetadata, onerror, metadataPending>>
    /\ UNCHANGED <<playPending, stopped, pc, page, closeTimers>>
    /\ UNCHANGED <<lookupVars, sdkVars, clockVars>>
    /\ UNCHANGED fullscreen

\* line 106 of a mutant that leaves the stream attached
DetachStream_forgets == UNCHANGED <<srcObject, metadataPending>>

\* line 106: videoElement.srcObject = null
DetachStream ==
    /\ srcObject' = NULL
    /\ metadataPending' = FALSE

\* lines 104-112
StreamDisconnected ==
    /\ Delivered("stream_disconnected")
    /\ Len(closeTimers) < MaxCloseTimers
    /\ DetachStream
    /\ showError(MSG_DISCONNECTED)
    /\ closeTimers' = Append(closeTimers, now + CLOSE_DELAY_MS)
    /\ UNCHANGED <<onloadedmetadata, onerror, playPending, stopped, pc, page>>
    /\ UNCHANGED <<lookupVars, sdkVars, clockVars>>
    /\ UNCHANGED fullscreen

\* lines 115-117
AvatarStartTalking ==
    /\ Delivered("avatar_start_talking")
    /\ UNCHANGED vars

\* lines 119-121
AvatarStopTalking ==
    /\ Delivered("avatar_stop_talking")
    /\ UNCHANGED vars

\* lines 124-127
SdkError(error) ==
    /\ Delivered("error")
    /\ showError(MSG_SDK_PREFIX \o Or(error.message, MSG_UNKNOWN))
    /\ UNCHANGED <<pc, page, closeTimers>>
    /\ UNCHANGED <<lookupVars, sdkVars, mediaVars, clockVars>>
    /\ UNCHANGED fullscreen

(***************************************************************************)
(* The video element's callbacks (lines 80-97).                            *)
(***************************************************************************)
\* lines 80-82: metadata of the attached stream is loaded; play() is called
LoadedMetadata ==
    /\ page = "open"
    /\ onloadedmetadata
    /\ srcObject # NULL
    /\ metadataPending
    /\ playPending < MaxPlays
    /\ metadataPending' = FALSE
    /\ playPending' = playPending + 1
    /\ UNCHANGED <<srcObject, onloadedmetadata, onerror, stopped>>
    /\ UNCHANGED <<ui, pc, page, closeTimers>>
    /\ UNCHANGED <<lookupVars, sdkVars, clockVars>>
    /\ UNCHANGED fullscreen

\* lines 83-86
PlayResolved ==
    /\ page = "open"
    /\ playPending > 0
    /\ playPending' = playPending - 1
    /\ showVideo
    /\ UNCHANGED <<srcObject, onloadedmetadata, onerror, metadataPending, stopped>>
    /\ UNCHANGED <<pc, page, closeTimers>>
    /\ UNCHANGED <<lookupVars, sdkVars, clockVars>>
    /\ UNCHANGED fullscreen

\* lines 87-90
PlayRejected ==
    /\ page = "open"
    /\ playPending > 0
    /\ playPending' = playPending - 1
    /\ showError(MSG_PLAY_FAILED)
    /\ UNCHANGED <<srcObject, onloadedmetadata, onerror, metadataPending, stopped>>
    /\ UNCHANGED <<pc, page, closeTimers>>
    /\ UNCHANGED <<lookupVars, sdkVars, clockVars>>
    /\ UNCHANGED fullscreen

\* lines 94-97
VideoError ==
    /\ page = "open"
    /\ onerror
    /\ srcObject # NULL
    /\ showError(MSG_VIDEO_ERROR)
    /\ UNCHANGED <<pc, page, closeTimers>>
    /\ UNCHANGED <<lookupVars, sdkVars, mediaVars, clockVars>>
    /\ UNCHANGED fullscreen

(***************************************************************************)
(* Timers, the clock and the unload of the page.                           *)
(***************************************************************************)
\* lines 133-136 of a mutant that keeps an error already shown
TimeoutCallback_unlessError ==
    IF Falsy(srcObject) /\ errorDisplay = "none"
    THEN showError(MSG_TIMEOUT)
    ELSE UNCHANGED ui

\* lines 133-136
TimeoutCallback ==
    IF Falsy(srcObject)
    THEN showError(MSG_TIMEOUT)
    ELSE UNCHANGED ui

\* timers run in the order of their due times, and of their creation when
\* these are equal: the connection timer is the older one
TimeoutIsNext ==
    IF closeTimers = <<>> THEN TRUE ELSE timeoutTimer.due <= Head(closeTimers)

CloseIsNext ==
    IF timeoutTimer.state = "armed" THEN Head(closeTimers) < timeoutTimer.due ELSE TRUE

\* lines 132-137 of a mutant with setInterval in place of setTimeout
TimeoutFired_interval ==
    /\ page = "open"
    /\ timeoutTimer.state = "armed"
    /\ now >= timeoutTimer.due
    /\ TimeoutIsNext
    /\ timeoutTimer' = [timeoutTimer EXCEPT !.due = now + TIMEOUT_MS]
    /\ TimeoutCallback
    /\ UNCHANGED <<avatar, clientToken, constructCount, handlers>>
    /\ UNCHANGED <<pc, page, closeTimers>>
    /\ UNCHANGED <<lookupVars, mediaVars, clockVars>>
    /\ UNCHANGED fullscreen

\* lines 132-137
TimeoutFired ==
    /\ page = "open"
    /\ timeoutTimer.state = "armed"
    /\ now >= timeoutTimer.due
    /\ TimeoutIsNext
    /\ timeoutTimer' = [timeoutTimer EXCEPT !.state = "fired"]
    /\ TimeoutCallback
    /\ UNCHANGED <<avatar, clientToken, constructCount, handlers>>
    /\ UNCHANGED <<pc, page, closeTimers>>
    /\ UNCHANGED <<lookupVars, mediaVars, clockVars>>
    /\ UNCHANGED fullscreen

\* lines 165-179 of a mutant that detaches the stream without stopping its tracks
BeforeUnload_keepsTracks ==
    /\ IF pc = "aborted"
       THEN UNCHANGED <<srcObject, stopped, avatar>>
       ELSE /\ srcObject' = NULL
            /\ UNCHANGED stopped
            /\ avatar' = NULL

\* lines 165-179: the beforeunload listener, registered unless line 15 threw
BeforeUnload ==
    /\ IF pc = "aborted"
       THEN UNCHANGED <<srcObject, stopped, avatar>>
       ELSE /\ IF ~Falsy(srcObject)
               THEN /\ stopped' = stopped \cup {srcObject}
                    /\ srcObject' = NULL
               ELSE UNCHANGED <<srcObject, stopped>>
            /\ avatar' = NULL

\* the page goes away (navigation, tab closed): the listener runs, nothing after
Unload ==
    /\ page = "open"
    /\ pc # "init"
    /\ BeforeUnload
    /\ page' = "unloaded"
    /\ UNCHANGED <<onloadedmetadata, onerror, metadataPending, playPending>>
    /\ UNCHANGED <<clientToken, constructCount, handlers, timeoutTimer>>
    /\ UNCHANGED <<ui, pc, closeTimers>>
    /\ UNCHANGED <<lookupVars, clockVars>>
    /\ UNCHANGED fullscreen

\* lines 109-111: window.close() either closes the page or is refused
CloseFired(closes) ==
    /\ page = "open"
    /\ closeTimers # <<>>
    /\ now >= Head(closeTimers)
    /\ CloseIsNext
    /\ closeTimers' = Tail(closeTimers)
    /\ IF closes
       THEN /\ BeforeUnload
            /\ page' = "unloaded"
       ELSE UNCHANGED <<srcObject, stopped, avatar, page>>
    /\ UNCHANGED <<onloadedmetadata, onerror, metadataPending, playPending>>
    /\ UNCHANGED <<clientToken, constructCount, handlers, timeoutTimer>>
    /\ UNCHANGED <<ui, pc>>
    /\ UNCHANGED <<lookupVars, clockVars>>
    /\ UNCHANGED fullscreen

TimerPending ==
    \/ (timeoutTimer.state = "armed" /\ now < timeoutTimer.due)
    \/ (closeTimers # <<>> /\ now < Head(closeTimers))

\* time passes; only timers read the clock, so it runs while one is not yet due
Tick(d) ==
    /\ page = "open"
    /\ TimerPending
    /\ ticks < MaxTicks
    /\ now' = now + d
    /\ ticks' = ticks + 1
    /\ UNCHANGED <<ui, pc, page, closeTimers>>
    /\ UNCHANGED <<lookupVars, sdkVars, mediaVars>>
    /\ UNCHANGED fullscreen

Next ==
    \/ TopLevel
    \/ \E m \in NetworkErrors : FetchRejected(m)
    \/ FetchResolved
    \/ JsonSettled
    \/ \E o \in FullscreenOutcomes : FullscreenSettled(o)
    \/ \E e \in ReadyEvents : StreamReady(e)
    \/ StreamDisconnected
    \/ AvatarStartTalking
    \/ AvatarStopTalking
    \/ \E e \in SdkErrors : SdkError(e)
    \/ LoadedMetadata
    \/ PlayResolved
    \/ PlayRejected
    \/ VideoError
    \/ TimeoutFired
    \/ \E c \in BOOLEAN : CloseFired(c)
    \/ Unload
    \/ \E d \in TickSteps : Tick(d)

Spec == Init /\ [][Next]_vars

\* the URL claims: the page loads of InitUrl, up to the start of main()
NextUrl == TopLevel

SpecUrl == InitUrl /\ [][NextUrl]_vars

(***************************************************************************)
(* Vocabulary of the claims, stated without the operators of the model.    *)
(***************************************************************************)
Visible(display) == display # "none"

LoadingState ==
    Visible(loadingDisplay) /\ ~Visible(videoDisplay) /\ ~Visible(errorDisplay)

PlayingState ==
    ~Visible(loadingDisplay) /\ Visible(videoDisplay) /\ ~Visible(errorDisplay)

ErrorState ==
    ~Visible(loadingDisplay) /\ ~Visible(videoDisplay) /\ Visible(errorDisplay)

ErrorShown(message) == ErrorState /\ errorText = message

\* the parameter is in the URL / its first value
Present(q, k) == \E i \in DOMAIN q : q[i].key = k

FirstValue(q, k) ==
    LET at == {i \in DOMAIN q : q[i].key = k}
    IN  q[CHOOSE i \in at : \A j \in at : i <= j].value

\* the records of the list that carry the id under either name
MatchesAt(data, id) ==
    IF data.listed
    THEN {i \in DOMAIN data.active_sessions :
              \/ data.active_sessions[i].local_session_id = id
              \/ data.active_sessions[i].session_id = id}
    ELSE {}

\* the matched record: the first of them
Matched(data, id) ==
    data.active_sessions[CHOOSE i \in MatchesAt(data, id) :
                             \A j \in MatchesAt(data, id) : i <= j]

(***************************************************************************)
(* C1: with neither local_session_id nor session_id in the URL, the error  *)
(* is shown and the page load stops: no request to the sessions endpoint   *)
(* is issued and no SDK client is constructed, ever.                       *)
(***************************************************************************)
C1_NoIdStopsPageLoad ==
    (/\ pc # "init"
     /\ ~Present(search, "local_session_id")
     /\ ~Present(search, "session_id"))
    => (/\ pc = "aborted"
        /\ ErrorShown(MSG_MISSING_ID)
        /\ fetchCount = 0
        /\ constructCount = 0
        /\ avatar = NULL)

C1_Witness ==
    /\ pc = "aborted"
    /\ page = "unloaded"
    /\ ~Present(search, "local_session_id")
    /\ ~Present(search, "session_id")
    /\ Present(search, "lang")

(***************************************************************************)
(* C10 as claimed: whenever local_session_id is present in the URL its     *)
(* value is the identifier of the lookup, session_id being used only when  *)
(* local_session_id is absent.                                             *)
(***************************************************************************)
C10_PresentWins ==
    pc = "awaitFetch"
    => sessionId = (IF Present(search, "local_session_id")
                    THEN FirstValue(search, "local_session_id")
                    ELSE FirstValue(search, "session_id"))

(***************************************************************************)
(* C10, amended: the identifier of the lookup is the value of              *)
(* local_session_id when that parameter is present and not empty, and the  *)
(* value of session_id otherwise, whatever their order in the URL.         *)
(***************************************************************************)
C10_NonEmptyWins ==
    pc = "awaitFetch"
    => sessionId = (IF /\ Present(search, "local_session_id")
                       /\ FirstValue(search, "local_session_id") # ""
                    THEN FirstValue(search, "local_session_id")
                    ELSE FirstValue(search, "session_id"))

C10_Witness ==
    /\ pc = "awaitFetch"
    /\ Len(search) = 2
    /\ search[1].key = "session_id"
    /\ search[2].key = "local_session_id"
    /\ search[1].value = "b"
    /\ sessionId = "a"

(***************************************************************************)
(* C2: when no record of the returned list carries the requested id under  *)
(* either name (the list may be absent or empty), main() fails with the    *)
(* session-not-found message shown in the error state, and the UI stays    *)
(* there.                                                                  *)
(***************************************************************************)
JsonStep == pc = "awaitJson" /\ pc' # "awaitJson"

LookupFailedForGood == [][pc = "failed" => (pc' = "failed" /\ UNCHANGED ui)]_vars

C2_NotFoundShown ==
    /\ [][(/\ JsonStep
           /\ response[1].body.json
           /\ MatchesAt(response[1].body, sessionId) = {})
          => (/\ pc' = "failed"
              /\ ErrorShown(MSG_INIT_PREFIX \o MSG_NOT_FOUND)')]_vars
    /\ LookupFailedForGood

C2_Witness ==
    /\ pc = "failed"
    /\ page = "open"
    /\ ErrorShown("Failed to initialize avatar: Session not found in active sessions")

(***************************************************************************)
(* C3: when the matched record has no access token (none, or an empty      *)
(* one), main() fails with the missing-token message shown in the error    *)
(* state, and the UI stays there.                                          *)
(***************************************************************************)
C3_MissingTokenShown ==
    /\ [][(/\ JsonStep
           /\ response[1].body.json
           /\ MatchesAt(response[1].body, sessionId) # {}
           /\ Matched(response[1].body, sessionId).access_token \in {NULL, ""})
          => (/\ pc' = "failed"
              /\ ErrorShown(MSG_INIT_PREFIX \o MSG_NO_TOKEN)')]_vars
    /\ [][(pc = "failed" /\ errorText = MSG_INIT_PREFIX \o MSG_NO_TOKEN)
          => UNCHANGED <<pc, ui>>]_vars

C3_Witness ==
    /\ pc = "failed"
    /\ page = "open"
    /\ ErrorShown("Failed to initialize avatar: Session found but access_token is missing")

(***************************************************************************)
(* C4: when the matched record has an access token, main() goes on to      *)
(* construct the SDK client, once in the page load, with the access token  *)
(* of that record.                                                         *)
(***************************************************************************)
C4_ConstructedOnceWithToken ==
    /\ [][(/\ JsonStep
           /\ response[1].body.json
           /\ MatchesAt(response[1].body, sessionId) # {}
           /\ Matched(response[1].body, sessionId).access_token \notin {NULL, ""})
          => (pc' = "awaitFullscreen" /\ constructCount' = 0)]_vars
    /\ [][JsonStep
          => (\/ pc' = "failed"
              \/ accessToken' = Matched(response[1].body, sessionId).access_token)]_vars
    /\ [][(pc = "awaitFullscreen" /\ pc' # "awaitFullscreen")
          => (/\ pc' = "done"
              /\ constructCount' = 1
              /\ avatar' = "client"
              /\ clientToken' = accessToken
              /\ clientToken' \notin {NULL, ""})]_vars
    /\ [][pc = "done"
          => (pc' = "done" /\ UNCHANGED <<constructCount, clientToken>>)]_vars
    /\ [](constructCount = 1 <=> pc = "done")

\* two records match, with different tokens: the client has the first one's
C4_Witness ==
    /\ pc = "done"
    /\ constructCount = 1
    /\ clientToken = "t2"
    /\ srcObject # NULL

(***************************************************************************)
(* C5 as claimed: the stream-ready event that carries a media stream       *)
(* leaves the video surface visible and the loading and error regions      *)
(* hidden.                                                                 *)
(***************************************************************************)
StreamReadyWithStream ==
    \E e \in ReadyEvents : e.present /\ e.detail # NULL /\ StreamReady(e)

C5_ReadyShowsVideo == [][StreamReadyWithStream => PlayingState']_vars

(***************************************************************************)
(* C5, amended: the stream-ready event that carries a media stream         *)
(* attaches the stream and sets the media callbacks, the three regions     *)
(* staying as they are; the video surface becomes visible, with the        *)
(* loading and error regions hidden, when the play() started by the        *)
(* metadata-loaded callback resolves, and at no other step.                *)
(***************************************************************************)
C5_PlayShowsVideo ==
    /\ [][StreamReadyWithStream
          => (/\ srcObject' \in Streams
              /\ onloadedmetadata'
              /\ onerror'
              /\ UNCHANGED ui)]_vars
    /\ [][LoadedMetadata
          => (playPending' = playPending + 1 /\ UNCHANGED ui)]_vars
    /\ [][PlayResolved => PlayingState']_vars
    /\ [][(~PlayingState /\ PlayingState')
          => (playPending > 0 /\ playPending' = playPending - 1)]_vars

C5_Witness ==
    /\ PlayingState
    /\ srcObject = "s1"
    /\ errorText = ""

(***************************************************************************)
(* C6: every stream-disconnected event detaches the stream (srcObject is   *)
(* null), shows the disconnect message in the error state and schedules a  *)
(* window.close that is due CLOSE_DELAY_MS later and does not run earlier. *)
(***************************************************************************)
C6_DisconnectClearsAndCloses ==
    /\ [][StreamDisconnected
          => (/\ srcObject' = NULL
              /\ ErrorShown("Avatar disconnected. Closing...")'
              /\ closeTimers' = Append(closeTimers, now + 2000))]_vars
    /\ [][Len(closeTimers') < Len(closeTimers)
          => (now >= Head(closeTimers) /\ closeTimers' = Tail(closeTimers))]_vars
    /\ [][(page = "open" /\ page' = "unloaded" /\ errorText = MSG_DISCONNECTED
           /\ Len(closeTimers') < Len(closeTimers))
          => (srcObject' = NULL /\ avatar' = NULL)]_vars

\* a stream was attached, the event came, the close is pending
C6_Witness ==
    /\ page = "open"
    /\ onloadedmetadata
    /\ srcObject = NULL
    /\ ErrorShown(MSG_DISCONNECTED)
    /\ closeTimers = <<TIMEOUT_MS + CLOSE_DELAY_MS>>
    /\ timeoutTimer.state = "fired"

(***************************************************************************)
(* C7: the SDK initialization arms the timeout, due TIMEOUT_MS later; when *)
(* it fires, not before it is due, with no stream attached to the video    *)
(* surface, the connection-timeout message is shown in the error state,    *)
(* whatever was shown before (a disconnect message included).              *)
(***************************************************************************)
C7_TimeoutShown ==
    /\ [][(pc # "done" /\ pc' = "done")
          => timeoutTimer' = [state |-> "armed", due |-> now + 300000]]_vars
    /\ [][(timeoutTimer.state = "armed" /\ timeoutTimer' # timeoutTimer)
          => (/\ timeoutTimer'.state = "fired"
              /\ now >= timeoutTimer.due
              /\ (srcObject = NULL => ErrorShown(MSG_TIMEOUT)'))]_vars

\* no stream was ever attached, and no disconnect is pending
C7_Witness ==
    /\ timeoutTimer.state = "fired"
    /\ ~onloadedmetadata
    /\ closeTimers = <<>>
    /\ now = TIMEOUT_MS
    /\ ErrorShown(MSG_TIMEOUT)

(***************************************************************************)
(* C8: in every reachable state exactly one of the loading indicator, the  *)
(* video surface and the error display is visible.                         *)
(***************************************************************************)
C8_ExactlyOneVisible ==
    Cardinality({d \in {<<"loading", loadingDisplay>>,
                        <<"video", videoDisplay>>,
                        <<"error", errorDisplay>>} : Visible(d[2])}) = 1

\* the video is shown after an error was
C8_Witness ==
    /\ PlayingState
    /\ errorText = MSG_DISCONNECTED

(***************************************************************************)
(* C9 as claimed: once the UI is in the error state after a lookup        *)
(* failure, an SDK error event, a playback failure, a video error, a       *)
(* disconnect or a timeout, no later event moves it to the playing state.  *)
(***************************************************************************)
FailureMessages ==
    {MSG_UNREACHABLE, MSG_PLAY_FAILED, MSG_VIDEO_ERROR, MSG_DISCONNECTED, MSG_TIMEOUT}
    \cup {MSG_INIT_PREFIX \o m : m \in {MSG_NOT_FOUND, MSG_NO_TOKEN, JSON_ERROR, "Load failed"}}
    \cup {MSG_SDK_PREFIX \o m : m \in {MSG_UNKNOWN, "boom"}}

C9_ErrorIsTerminal ==
    [][(ErrorState /\ errorText \in FailureMessages) => ~PlayingState']_vars

(***************************************************************************)
(* C9, amended: a failure before the SDK client is constructed (missing    *)
(* id, failed lookup) is terminal, the UI staying in its error state;      *)
(* after the construction the UI leaves the error state only for the       *)
(* playing state, and only when a pending play() resolves.                 *)
(***************************************************************************)
C9_OnlyPlayLeavesError ==
    /\ [][(pc = "aborted" \/ pc = "failed")
          => (pc' = pc /\ UNCHANGED ui /\ ErrorState)]_vars
    /\ [][(ErrorState /\ ~ErrorState')
          => (/\ pc = "done"
              /\ PlayingState'
              /\ playPending > 0
              /\ playPending' = playPending - 1)]_vars

\* the timeout was reported, then a stream came and played
C9_Witness ==
    /\ PlayingState
    /\ errorText = MSG_TIMEOUT
    /\ srcObject # NULL

(***************************************************************************)
(* C11: when the beforeunload listener runs, the tracks of the stream      *)
(* attached to the video element are stopped, and after it the element     *)
(* has no stream and avatar is null.  The listener is the one line 165     *)
(* registers, so it runs on every unload but that of a page line 15 threw  *)
(* on.                                                                     *)
(***************************************************************************)
BeforeUnloadRuns == page = "open" /\ page' = "unloaded" /\ pc # "aborted"

C11_UnloadReleases ==
    [][BeforeUnloadRuns
       => (/\ (srcObject # NULL => srcObject \in stopped')
           /\ stopped \subseteq stopped'
           /\ srcObject' = NULL
           /\ avatar' = NULL)]_vars

\* a page that had a client and an attached stream was unloaded
C11_Witness ==
    /\ page = "unloaded"
    /\ constructCount = 1
    /\ stopped # {}
    /\ srcObject = NULL
    /\ avatar = NULL

(***************************************************************************)
(* C12: a fullscreen request that fails is ignored: the UI does not        *)
(* change (so it is not in the error state), and in the same task the      *)
(* client is constructed with the token, all the handlers are registered  *)
(* and the timeout is armed.                                               *)
(***************************************************************************)
C12_FullscreenFailureIgnored ==
    [][FullscreenSettled("denied")
       => (/\ fullscreen' = "failed"
           /\ UNCHANGED ui
           /\ ~ErrorState'
           /\ avatar' = "client"
           /\ constructCount' = 1
           /\ clientToken' = accessToken
           /\ ~Falsy(clientToken')
           /\ handlers' = EVENTS
           /\ timeoutTimer' = [state |-> "armed", due |-> now + TIMEOUT_MS])]_vars

\* the request was refused and the page went on to wait for the stream
C12_Witness ==
    /\ fullscreen = "failed"
    /\ LoadingState
    /\ avatar = "client"
    /\ handlers = EVENTS
    /\ timeoutTimer.state = "armed"

(***************************************************************************)
(* C13: nothing is retried.  The sessions endpoint is requested at most     *)
(* once and the client is constructed at most once; the timeout timer is   *)
(* armed at most once and fires at most once: it only moves from unarmed   *)
(* to armed and from armed to fired, and its due time is set when armed    *)
(* and never again.                                                        *)
(***************************************************************************)
C13_NothingRetried ==
    /\ [](fetchCount <= 1 /\ constructCount <= 1)
    /\ [][/\ fetchCount' >= fetchCount
          /\ constructCount' >= constructCount
          /\ (timeoutTimer' # timeoutTimer)
             => (\/ (/\ timeoutTimer.state = "unarmed"
                     /\ timeoutTimer'.state = "armed")
                 \/ (/\ timeoutTimer.state = "armed"
                     /\ timeoutTimer' = [timeoutTimer EXCEPT !.state = "fired"]))]_vars

\* each happened once, and the timer that fired did not fire again although
\* the page stayed open for another wait window
C13_Witness ==
    /\ fetchCount = 1
    /\ constructCount = 1
    /\ timeoutTimer.state = "fired"
    /\ now >= timeoutTimer.due + TIMEOUT_MS
    /\ page = "open"

(***************************************************************************)
(* C14: the "Cannot connect to server" hint is shown exactly when the      *)
(* sessions fetch failed with a message that mentions the fetch: a         *)
(* rejection whose message has the word in it, or the non-OK response,     *)
(* whose message is "Failed to fetch sessions: ...".  A rejection whose     *)
(* message does not have the word, an unparsable body, the session not     *)
(* found and the missing token are shown as "Failed to initialize avatar:  *)
(* <reason>".                                                              *)
(***************************************************************************)
FetchMentioned == {"Failed to fetch", "NetworkError when attempting to fetch resource."}

NonOkResponse == FetchResolved /\ pc' = "failed"

C14_HintIffFetchFailure ==
    /\ [][\A m \in NetworkErrors :
             FetchRejected(m)
             => IF m \in FetchMentioned
                THEN ErrorShown(MSG_UNREACHABLE)'
                ELSE ErrorShown(MSG_INIT_PREFIX \o m)']_vars
    /\ [][NonOkResponse => ErrorShown(MSG_UNREACHABLE)']_vars
    /\ [][(JsonStep /\ pc' = "failed")
          => (/\ ErrorState'
              /\ errorText' = MSG_INIT_PREFIX \o
                     (IF ~response[1].body.json THEN JSON_ERROR
                      ELSE IF MatchesAt(response[1].body, sessionId) = {}
                      THEN MSG_NOT_FOUND
                      ELSE MSG_NO_TOKEN)
              /\ errorText' # MSG_UNREACHABLE)]_vars
    /\ [][(errorText' = MSG_UNREACHABLE /\ errorText # MSG_UNREACHABLE)
          => (pc = "awaitFetch" /\ pc' = "failed")]_vars

\* the fetch failed and the hint is what the page shows
C14_Witness ==
    /\ pc = "failed"
    /\ fetchCount = 1
    /\ ErrorShown(MSG_UNREACHABLE)

(***************************************************************************)
(* C15: a stream-ready event with no payload, or with a payload that has   *)
(* no detail, puts the UI in the error state with the no-stream message,   *)
(* and leaves videoElement.srcObject, onloadedmetadata and onerror as      *)
(* they were.                                                              *)
(***************************************************************************)
StreamReadyWithoutStream ==
    \E e \in ReadyEvents : (~e.present \/ e.detail = NULL) /\ StreamReady(e)

C15_NoStreamReported ==
    [][StreamReadyWithoutStream
       => (/\ ErrorShown(MSG_NO_STREAM)'
           /\ UNCHANGED <<srcObject, onloadedmetadata, onerror>>)]_vars

\* the event came without a stream while one was attached
C15_Witness ==
    /\ ErrorShown(MSG_NO_STREAM)
    /\ srcObject # NULL
    /\ onloadedmetadata
    /\ onerror

(***************************************************************************)
(* C16: the client is constructed, the handlers are registered and the     *)
(* timeout is armed only once a matching session with an access token was  *)
(* found.  Until then, and for good after a failed lookup (fetch rejected, *)
(* non-OK response, unparsable body, session not found, token missing),    *)
(* avatar is null, no handler is registered and the timeout is not armed;  *)
(* the failure takes the UI from the untouched loading state to the error  *)
(* state, and nothing changes the UI after it.                             *)
(***************************************************************************)
C16_NothingBeforeSession ==
    /\ [](pc # "done"
          => (/\ avatar = NULL
              /\ constructCount = 0
              /\ handlers = {}
              /\ timeoutTimer.state = "unarmed"
              /\ closeTimers = <<>>))
    /\ [][(constructCount' # constructCount \/ handlers' # handlers
             \/ (timeoutTimer.state = "unarmed" /\ timeoutTimer'.state = "armed"))
          => (/\ pc = "awaitFullscreen"
              /\ ~Falsy(accessToken)
              /\ sessionId # NULL)]_vars
    /\ [][(pc' = "failed" /\ pc # "failed")
          => (/\ pc \in {"awaitFetch", "awaitJson"}
              /\ InitDom
              /\ ErrorState')]_vars
    /\ [][pc = "failed"
          => (pc' = "failed" /\ UNCHANGED <<ui, handlers, timeoutTimer>>)]_vars

\* the matched session had no token: an error, and nothing was set up
C16_Witness ==
    /\ pc = "failed"
    /\ ErrorShown(MSG_INIT_PREFIX \o MSG_NO_TOKEN)
    /\ avatar = NULL
    /\ handlers = {}
    /\ timeoutTimer.state = "unarmed"

(***************************************************************************)
(* C17: whenever the UI of the open page is in the playing state, a media  *)
(* stream is attached to the video element, whatever the order in which    *)
(* the stream-disconnected event, the loadedmetadata callback and the      *)
(* settling of play() come.                                                *)
(***************************************************************************)
C17_PlayingHasStream == (page = "open" /\ PlayingState) => srcObject # NULL

(***************************************************************************)
(* C18: the timeout message is shown only if no stream was ever attached:  *)
(* when one was attached before the timer fires, the firing leaves the UI  *)
(* as it is, even if the stream was detached since.  A stream was attached *)
(* at some time iff onloadedmetadata is set (line 80 sets it with the      *)
(* first stream and nothing unsets it).                                    *)
(***************************************************************************)
EverAttached == onloadedmetadata

TimerFires == timeoutTimer.state = "armed" /\ timeoutTimer'.state = "fired"

C18_TimeoutOnlyIfNeverAttached ==
    /\ [][(TimerFires /\ EverAttached) => UNCHANGED ui]_vars
    /\ [][(errorText' = MSG_TIMEOUT /\ errorText # MSG_TIMEOUT) => ~EverAttached]_vars

(***************************************************************************)
(* C19: every page load leaves the loading state, and does so no later     *)
(* than the firing of the timeout: the page that stopped at line 15 or in  *)
(* main's catch is in the error state, and when the timer fires the UI is  *)
(* in the playing or in the error state, whatever events came before.      *)
(***************************************************************************)
C19_LoadingEndsByTimeout ==
    /\ []((pc = "aborted" \/ pc = "failed") => ErrorState)
    /\ [][TimerFires => (PlayingState' \/ ErrorState')]_vars

====
